---------------------------- MODULE Spec2Model ----------------------------
(***************************************************************************)
(* A model of pgn-extract's tag-criteria engine (src/src/lists.c): the     *)
(* criterion registry (TagLists), the matchers (check_list, check_date,    *)
(* check_elo, check_time_control) and the record selector                  *)
(* (check_tag_details_not_ECO, check_ECO_tag).                             *)
(*                                                                         *)
(* A C string is a sequence of one-character strings; the absent string,  *)
(* a null pointer, is the value NULL, and the terminating '\0' of a buffer *)
(* is the value NUL.                                                       *)
(***************************************************************************)
EXTENDS Integers, Sequences, FiniteSets, TLC

VARIABLES
    TagLists,           \* static StringArray *TagLists
    tag_list_length,    \* static int tag_list_length
    check_tags,         \* GlobalState.check_tags
    use_soundex,        \* GlobalState.use_soundex
    tag_match_anywhere, \* GlobalState.tag_match_anywhere
    fen_patterns,       \* patterns handed to add_fen_pattern_match
    logfile,            \* lines written to GlobalState.logfile by the last call
    exited,             \* the process has called exit(1)
    nregs,              \* number of add_tag_to_list calls made so far
    call,               \* the last call of the engine and what it returned
    sbuf,               \* soundex's static char sbuf[MAXSOUNDEX + 1]
    threads             \* the evaluating threads of the concurrent specification

vars == <<TagLists, tag_list_length, check_tags, use_soundex, tag_match_anywhere,
          fen_patterns, logfile, exited, nregs, call, sbuf, threads>>

-----------------------------------------------------------------------------
(* Characters and strings.                                                 *)

NULL == <<"NULL">>
NUL == "NUL"
Uninit == "uninitialised"

DigitChars == {"0", "1", "2", "3", "4", "5", "6", "7", "8", "9"}

DigitVal == [c \in DigitChars |->
    CASE c = "0" -> 0 [] c = "1" -> 1 [] c = "2" -> 2 [] c = "3" -> 3
      [] c = "4" -> 4 [] c = "5" -> 5 [] c = "6" -> 6 [] c = "7" -> 7
      [] c = "8" -> 8 [] c = "9" -> 9]

\* toupper on the lower-case letters.
UpperOf == [a |-> "A", b |-> "B", c |-> "C", d |-> "D", e |-> "E", f |-> "F",
            g |-> "G", h |-> "H", i |-> "I", j |-> "J", k |-> "K", l |-> "L",
            m |-> "M", n |-> "N", o |-> "O", p |-> "P", q |-> "Q", r |-> "R",
            s |-> "S", t |-> "T", u |-> "U", v |-> "V", w |-> "W", x |-> "X",
            y |-> "Y", z |-> "Z"]

\*                  ABCDEFGHIJKLMNOPQRSTUVWXYZ
\*  mapping   ==   "01230120002455012622011202"
mapping == [A |-> "0", B |-> "1", C |-> "2", D |-> "3", E |-> "0", F |-> "1",
            G |-> "2", H |-> "0", I |-> "0", J |-> "0", K |-> "2", L |-> "4",
            M |-> "5", N |-> "5", O |-> "0", P |-> "1", Q |-> "2", R |-> "6",
            S |-> "2", T |-> "2", U |-> "0", V |-> "1", W |-> "1", X |-> "2",
            Y |-> "0", Z |-> "2"]

islower(c) == c \in DOMAIN UpperOf
isupper(c) == c \in DOMAIN mapping
isalpha(c) == islower(c) \/ isupper(c)
isdigit(c) == c \in DigitChars
isspace(c) == c = " "
toupper(c) == IF islower(c) THEN UpperOf[c] ELSE c

\* The first character of a C string, NUL at its end.
First(s) == IF s = <<>> THEN NUL ELSE Head(s)

\* strncmp(s, p, strlen(p)) == 0
IsPrefix(p, s) == Len(p) <= Len(s) /\ SubSeq(s, 1, Len(p)) = p

\* strstr(s, p) != NULL
IsSubstring(p, s) ==
    \E i \in 0..(Len(s) - Len(p)) : SubSeq(s, i + 1, i + Len(p)) = p

\* strchr(s, c): the index of the first c in s, 0 when there is none.
StrChr(s, c) ==
    IF \E i \in 1..Len(s) : s[i] = c
    THEN CHOOSE i \in 1..Len(s) : s[i] = c /\ \A j \in 1..(i - 1) : s[j] # c
    ELSE 0

\* The suffix of s from index i on (a char * into s).
From(s, i) == SubSeq(s, i, Len(s))

-----------------------------------------------------------------------------
(* sscanf conversions.                                                     *)

RECURSIVE SkipSpace(_)
SkipSpace(s) == IF s # <<>> /\ isspace(Head(s)) THEN SkipSpace(Tail(s)) ELSE s

\* The number of leading digits of s.
RECURSIVE DigitRun(_)
DigitRun(s) == IF s # <<>> /\ isdigit(Head(s)) THEN 1 + DigitRun(Tail(s)) ELSE 0

\* The value of a string of digits.
RECURSIVE DigitsValue(_)
DigitsValue(ds) ==
    IF ds = <<>> THEN 0
    ELSE 10 * DigitsValue(SubSeq(ds, 1, Len(ds) - 1)) + DigitVal[ds[Len(ds)]]

\* A failed conversion.
NoScan == [ok |-> FALSE, val |-> 0, rest |-> <<>>]

\* The text after an optional sign.
Unsigned(t) == IF First(t) \in {"+", "-"} THEN Tail(t) ELSE t

\* The value of the n leading digits of u, negated (as an unsigned of 32
\* bits) after a '-'. TLC's integers have 31 bits, and TLC stops with an
\* overflow error, never a wrong value, on a number beyond them (the
\* negation 2^32 - v of a non-zero v is one).
UnsignedValue(neg, v) ==
    IF neg /\ v # 0 THEN (2147483647 - v) + 2147483647 + 2 ELSE v

ScanDigits(neg, u, n) ==
    IF n = 0 THEN NoScan
    ELSE [ok |-> TRUE,
          val |-> UnsignedValue(neg, DigitsValue(SubSeq(u, 1, n))),
          rest |-> From(u, n + 1)]

ScanSigned(t) == ScanDigits(First(t) = "-", Unsigned(t), DigitRun(Unsigned(t)))

\* sscanf(s, "%u", &v): white space is skipped, a sign is accepted, at
\* least one digit is needed. ok: the conversion was made; val: the
\* number; rest: what follows it.
ScanU(s) == ScanSigned(SkipSpace(s))

\* The next "%u" of a format after a '.', when the conversion before it
\* was made and a '.' follows.
ScanAfterDot(prev) ==
    IF prev.ok /\ First(prev.rest) = "." THEN ScanU(Tail(prev.rest)) ELSE NoScan

MonthDay(m, d) ==
    [month |-> IF m.ok THEN m.val ELSE 1, day |-> IF d.ok THEN d.val ELSE 1]

MonthDayFrom(m) == MonthDay(m, ScanAfterDot(m))

\* sscanf(s, "%*u.%u.%u", &month, &day) after month and day were set to 1:
\* each keeps the 1 unless its conversion is reached and made.
ScanMonthDay(s) == MonthDayFrom(ScanAfterDot(ScanU(s)))

RECURSIVE Pow10(_)
Pow10(k) == IF k = 0 THEN 1 ELSE 10 * Pow10(k - 1)

\* The double read from ni digits of u, then nf digits after a '.',
\* kept as the exact decimal num/den.
DecimalValue(neg, u, ni, nf) ==
    IF ni + nf = 0 THEN [ok |-> FALSE, num |-> 0, den |-> 1]
    ELSE [ok |-> TRUE,
          num |-> (IF neg THEN -1 ELSE 1)
                  * (DigitsValue(SubSeq(u, 1, ni)) * Pow10(nf)
                     + DigitsValue(SubSeq(u, ni + 2, ni + 1 + nf))),
          den |-> Pow10(nf)]

\* The number of digits after the '.' that follows the ni leading digits.
FractionRun(u, ni) ==
    IF First(From(u, ni + 1)) = "." THEN DigitRun(From(u, ni + 2)) ELSE 0

ScanDecimal(neg, u, ni) == DecimalValue(neg, u, ni, FractionRun(u, ni))

ScanLfSigned(t) == ScanDecimal(First(t) = "-", Unsigned(t), DigitRun(Unsigned(t)))

\* sscanf(s, "%lf", &v) on strings of signs, digits, '.' and other
\* characters that start no exponent, "inf", "nan" or hexadecimal form:
\* digits with at most one '.', at least one digit.
ScanLf(s) == ScanLfSigned(SkipSpace(s))

\* An unsigned converted to double.
Dbl(n) == [num |-> n, den |-> 1]

-----------------------------------------------------------------------------
(* TagOperator and relative_numeric_match.                                 *)

RelationalOps == {"LESS_THAN", "LESS_THAN_OR_EQUAL_TO", "GREATER_THAN",
                  "GREATER_THAN_OR_EQUAL_TO", "EQUAL_TO", "NOT_EQUAL_TO"}
TagOperator == RelationalOps \cup {"NONE", "REGEX"}

relative_numeric_match_NoEq(operator, lhs, rhs) ==
    LET l == lhs.num * rhs.den
        r == rhs.num * lhs.den
    IN  CASE operator = "LESS_THAN" -> l < r
          [] operator = "LESS_THAN_OR_EQUAL_TO" -> l < r
          [] operator = "GREATER_THAN" -> l > r
          [] operator = "GREATER_THAN_OR_EQUAL_TO" -> l > r
          [] operator = "EQUAL_TO" -> l = r
          [] operator = "NOT_EQUAL_TO" -> l # r
          [] OTHER -> FALSE

\* Determine whether lhs operator rhs is TRUE or FALSE; NONE and any
\* operator without a case (REGEX) give FALSE and a diagnostic.
relative_numeric_match(operator, lhs, rhs) ==
    LET l == lhs.num * rhs.den
        r == rhs.num * lhs.den
    IN  CASE operator = "LESS_THAN" -> l < r
          [] operator = "LESS_THAN_OR_EQUAL_TO" -> l <= r
          [] operator = "GREATER_THAN" -> l > r
          [] operator = "GREATER_THAN_OR_EQUAL_TO" -> l >= r
          [] operator = "EQUAL_TO" -> l = r
          [] operator = "NOT_EQUAL_TO" -> l # r
          [] OTHER -> FALSE

\* The number of diagnostics relative_numeric_match writes for operator.
relative_numeric_match_log(operator) ==
    IF operator \in RelationalOps THEN 0 ELSE 1

-----------------------------------------------------------------------------
(* soundex.                                                                *)

MAXSOUNDEX == 50

\* A zero-initialised static buffer.
EmptyBuf == [i \in 0..MAXSOUNDEX |-> NUL]

\* The C string held in a buffer: the characters before its first NUL.
RECURSIVE CStrFrom(_, _)
CStrFrom(buf, i) ==
    IF i > MAXSOUNDEX \/ buf[i] = NUL THEN <<>>
    ELSE <<buf[i]>> \o CStrFrom(buf, i + 1)

CStr(buf) == CStrFrom(buf, 0)

\* soundex up to its loop: the special case for an initial 'J' or 'Y'.
\* st: str (what is left to read), sindex, lastc; buf: the buffer written.
SoundexBegin(str, buf) ==
    LET initial_letter == toupper(First(str))
    IN  IF initial_letter \in {"Y", "J"}
        THEN [str |-> Tail(str), sindex |-> 1, lastc |-> " ",
              buf |-> [buf EXCEPT ![0] = "7"]]
        ELSE [str |-> str, sindex |-> 0, lastc |-> " ", buf |-> buf]

SoundexLoopCond(st) == st.str # <<>> /\ st.sindex < MAXSOUNDEX

SoundexIter_Repeating(st, buf) ==
    LET ch == Head(st.str)
        translation == mapping[toupper(ch)]
        emit == isalpha(ch) /\ ch # st.lastc /\ translation # "0"
    IN  [str |-> Tail(st.str),
         sindex |-> IF emit THEN st.sindex + 1 ELSE st.sindex,
         lastc |-> IF emit THEN translation ELSE st.lastc,
         buf |-> IF emit THEN [buf EXCEPT ![st.sindex] = translation] ELSE buf]

\* One turn of soundex's while loop, writing into buf.
SoundexIter(st, buf) ==
    LET ch == Head(st.str)
        translation == mapping[toupper(ch)]
        emit == isalpha(ch) /\ ch # st.lastc
                /\ translation # "0" /\ translation # st.lastc
    IN  [str |-> Tail(st.str),
         sindex |-> IF emit THEN st.sindex + 1 ELSE st.sindex,
         lastc |-> IF emit THEN translation ELSE st.lastc,
         buf |-> IF emit THEN [buf EXCEPT ![st.sindex] = translation] ELSE buf]

\* sbuf[sindex] = '\0'
SoundexEnd(st, buf) == [buf EXCEPT ![st.sindex] = NUL]

RECURSIVE SoundexLoop(_)
SoundexLoop(st) ==
    IF SoundexLoopCond(st) THEN SoundexLoop(SoundexIter(st, st.buf)) ELSE st

SoundexFinish(st) == SoundexEnd(st, st.buf)

\* The static buffer after one uninterrupted call of soundex(str).
SoundexBuf(str, buf) == SoundexFinish(SoundexLoop(SoundexBegin(str, buf)))

\* The string one uninterrupted call of soundex(str) returns.
soundex(str) == CStr(SoundexBuf(str, EmptyBuf))

-----------------------------------------------------------------------------
(* regcomp and regexec (flags 0: a POSIX basic regular expression), for    *)
(* patterns built of ordinary characters, '.', '*', a leading '^', a      *)
(* trailing '$' and an unmatched '['.                                      *)

\* regcomp(&regex, p, 0) == 0: a '[' that no later ']' closes does not
\* compile (the first character after '[' is never the closing one).
regcomp(p) ==
    \A i \in 1..Len(p) : p[i] = "[" => \E j \in (i + 2)..Len(p) : p[j] = "]"

\* The atoms of the pattern body: a character (or '.') and whether '*'
\* follows it. A '*' with nothing before it is an ordinary character.
RECURSIVE RegexAtoms(_)
RegexAtoms(p) ==
    IF p = <<>> THEN <<>>
    ELSE IF Len(p) >= 2 /\ p[2] = "*"
         THEN <<[ch |-> p[1], any |-> p[1] = ".", star |-> TRUE]>>
              \o RegexAtoms(From(p, 3))
         ELSE <<[ch |-> p[1], any |-> p[1] = ".", star |-> FALSE]>>
              \o RegexAtoms(Tail(p))

AtomMatches(a, c) == a.any \/ a.ch = c

\* Whether the atoms match s from its start: all of s when toEnd, some
\* prefix of it otherwise.
RECURSIVE MatchHere(_, _, _)
MatchHere(atoms, s, toEnd) ==
    IF atoms = <<>> THEN (~toEnd \/ s = <<>>)
    ELSE LET a == Head(atoms)
         IN  IF a.star
             THEN \/ MatchHere(Tail(atoms), s, toEnd)
                  \/ /\ s # <<>>
                     /\ AtomMatches(a, Head(s))
                     /\ MatchHere(atoms, Tail(s), toEnd)
             ELSE /\ s # <<>>
                  /\ AtomMatches(a, Head(s))
                  /\ MatchHere(Tail(atoms), Tail(s), toEnd)

\* A search for the pattern body from the start of s only (atStart) or
\* from any place in it.
RegexSearch(body, s, atStart, toEnd) ==
    \E i \in 0..(IF atStart THEN 0 ELSE Len(s)) :
        MatchHere(RegexAtoms(body), From(s, i + 1), toEnd)

RegexAnchoredEnd(p1, s, atStart) ==
    IF p1 # <<>> /\ p1[Len(p1)] = "$"
    THEN RegexSearch(SubSeq(p1, 1, Len(p1) - 1), s, atStart, TRUE)
    ELSE RegexSearch(p1, s, atStart, FALSE)

\* regexec(&regex, s, 0, NULL, 0) == 0 for a pattern that compiled: an
\* unanchored search.
regexec(p, s) ==
    IF First(p) = "^" THEN RegexAnchoredEnd(Tail(p), s, TRUE)
    ELSE RegexAnchoredEnd(p, s, FALSE)

-----------------------------------------------------------------------------
(* StringArray, and the matchers over one.                                 *)

\* The used entries of a list, in order: tag_strings[0 .. num_used_elements - 1].
Entries(list) == SubSeq(list.tag_strings, 1, list.num_used_elements)

soundex_tag_All(tag) == TRUE

EVENT_TAG == 0
DATE_TAG == 1
WHITE_TAG == 2
BLACK_TAG == 3
WHITE_ELO_TAG == 4
BLACK_ELO_TAG == 5
ECO_TAG == 6
TIME_CONTROL_TAG == 7
FEN_TAG == 8
PSEUDO_PLAYER_TAG == 9
PSEUDO_ELO_TAG == 10
ORIGINAL_NUMBER_OF_TAGS == 11

\* Return TRUE if tag is one on which soundex matching should be used.
\* (SITE_TAG and ANNOTATOR_TAG are not among the model's tag codes.)
soundex_tag(tag) == tag \in {WHITE_TAG, BLACK_TAG, PSEUDO_PLAYER_TAG, EVENT_TAG}

\* The candidate is numeric: an optional sign, then digits and '.' only.
tag_string_is_numeric(search_str) ==
    LET t == IF First(search_str) \in {"+", "-"} THEN Tail(search_str)
             ELSE search_str
    IN  \A i \in 1..Len(t) : isdigit(t[i]) \/ t[i] = "."

\* The plain test of one criterion's text against the candidate.
plain_match(search_str, list_string) ==
    IF tag_match_anywhere THEN IsSubstring(list_string, search_str)
    ELSE IsPrefix(list_string, search_str)

\* check_list's first loop. acc: wanted, possible_range_check,
\* possible_regex_check.
RECURSIVE check_list_plain(_, _, _, _)
check_list_plain(search_str, entries, list_index, acc) ==
    IF ~(list_index < Len(entries) /\ ~acc.wanted) THEN acc
    ELSE LET selection == entries[list_index + 1]
             wanted == plain_match(search_str, selection.tag_string)
             defer == ~wanted /\ selection.operator # "NONE"
         IN  check_list_plain(search_str, entries, list_index + 1,
                 [wanted |-> wanted,
                  possible_range_check |-> acc.possible_range_check
                      \/ (defer /\ tag_string_is_numeric(search_str)),
                  possible_regex_check |-> acc.possible_regex_check
                      \/ (defer /\ selection.operator = "REGEX")])

\* check_list's relational loop. acc: wanted, comparisons (how many times
\* relative_numeric_match was called), log.
RECURSIVE check_list_range(_, _, _, _)
check_list_range(search_str, entries, list_index, acc) ==
    IF ~(list_index < Len(entries) /\ acc.wanted) THEN acc
    ELSE LET selection == entries[list_index + 1]
             tag_value == ScanLf(search_str)
             list_value == ScanLf(selection.tag_string)
         IN  check_list_range(search_str, entries, list_index + 1,
                 IF selection.operator \in RelationalOps
                 THEN IF tag_value.ok /\ list_value.ok
                      THEN [acc EXCEPT
                              !.wanted = relative_numeric_match(
                                  selection.operator, tag_value, list_value),
                              !.comparisons = @ + 1]
                      ELSE acc
                 ELSE IF selection.operator = "NONE" THEN acc
                 ELSE [acc EXCEPT !.log = Append(@,
                         "Internal error: missing case in call to check_list.")])

\* check_list's regex loop.
RECURSIVE check_list_regex(_, _, _, _)
check_list_regex(search_str, entries, list_index, wanted) ==
    IF ~(list_index < Len(entries) /\ ~wanted) THEN wanted
    ELSE LET selection == entries[list_index + 1]
         IN  check_list_regex(search_str, entries, list_index + 1,
                 selection.operator = "REGEX"
                 /\ regcomp(selection.tag_string)
                 /\ regexec(selection.tag_string, search_str))

\* The end of check_list: the regex loop, when it is entered. p: what the
\* first loop left; r: what the relational loop left.
check_list_end(search_str, entries, p, range_pass, r) ==
    [wanted |-> IF ~r.wanted /\ p.possible_regex_check
                THEN check_list_regex(search_str, entries, 0, FALSE)
                ELSE r.wanted,
     plain |-> p.wanted,
     range_pass |-> range_pass,
     comparisons |-> r.comparisons,
     regex_pass |-> ~r.wanted /\ p.possible_regex_check,
     log |-> r.log]

\* check_list after its first loop: the relational loop, when it is entered.
check_list_after_plain(search_str, entries, p) ==
    IF ~p.wanted /\ p.possible_range_check
    THEN check_list_end(search_str, entries, p, TRUE,
             check_list_range(search_str, entries, 0,
                 [wanted |-> TRUE, comparisons |-> 0, log |-> <<>>]))
    ELSE check_list_end(search_str, entries, p, FALSE,
             [wanted |-> p.wanted, comparisons |-> 0, log |-> <<>>])

\* check_list from the point where search_str is set (line 644 on).
\* plain: the first loop matched; range_pass, regex_pass: the relational
\* and the regex loop were entered; comparisons: the calls of
\* relative_numeric_match the relational loop made.
check_list_search(search_str, list) ==
    check_list_after_plain(search_str, Entries(list),
        check_list_plain(search_str, Entries(list), 0,
            [wanted |-> FALSE, possible_range_check |-> FALSE,
             possible_regex_check |-> FALSE]))

\* Whether check_list calls soundex on the candidate.
check_list_soundex(tag) == use_soundex /\ soundex_tag(tag)

check_list_in(list, buf1, search_str) ==
    [sbuf |-> buf1] @@ check_list_search(search_str, list)

check_list_sx(tag_string, list, buf1) == check_list_in(list, buf1, CStr(buf1))

\* check_list(tag, tag_string, list), run without interruption; buf is the
\* static buffer of soundex before the call, sbuf in the result the one
\* after it.
check_list(tag, tag_string, list, buf) ==
    IF check_list_soundex(tag)
    THEN check_list_sx(tag_string, list, SoundexBuf(tag_string, buf))
    ELSE check_list_in(list, buf, tag_string)

-----------------------------------------------------------------------------
(* check_date.                                                             *)

MINDATE == 100
MAXDATE == 3000

\* The operator check_date uses for a criterion: a leading 'b' or 'a' of
\* the pattern replaces the stored one.
date_operator(selection) ==
    IF First(selection.tag_string) = "b" THEN "LESS_THAN"
    ELSE IF First(selection.tag_string) = "a" THEN "GREATER_THAN"
    ELSE selection.operator

\* The pattern text check_date reads the date from: after the 'b' or 'a'.
date_list_string(selection) ==
    IF First(selection.tag_string) \in {"b", "a"} THEN Tail(selection.tag_string)
    ELSE selection.tag_string

\* unsigned arithmetic: a value below 2^32 is held as two 16-bit halves.
Half == 65536

\* a * b in unsigned arithmetic, for a up to 10000 and b below 2^31.
UnsignedTimes(a, b) ==
    [hi |-> (a * (b \div Half) + (a * (b % Half)) \div Half) % Half,
     lo |-> (a * (b % Half)) % Half]

\* x + y in unsigned arithmetic.
UnsignedPlus(x, y) ==
    [hi |-> (x.hi + y.hi + (x.lo + y.lo) \div Half) % Half,
     lo |-> (x.lo + y.lo) % Half]

\* The unsigned x as a double. The double is held less 2^31, which leaves
\* every comparison of two such doubles as it is.
UnsignedToDouble(x) == (x.hi - Half \div 2) * Half + x.lo

\* 10000 * year + 100 * month + day, of type unsigned, stored in a double
\* (lines 430 and 452).
EncodedDate(year, md) ==
    UnsignedToDouble(
        UnsignedPlus(UnsignedPlus(UnsignedTimes(10000, year),
                                  UnsignedTimes(100, md.month)),
                     UnsignedTimes(1, md.day)))

\* The encoded date of a date string that has a year.
encoded_date(date_string) ==
    EncodedDate(ScanU(date_string).val, ScanMonthDay(date_string))

\* The relational branch of check_date's loop for a pattern with a year.
date_relation_Seedless(date_string, list_index, operator, list_string, acc, game_year) ==
    IF game_year > 100 /\ game_year < 3000
    THEN [acc EXCEPT
            !.wanted = acc.wanted /\ relative_numeric_match(operator,
                Dbl(encoded_date(date_string)), Dbl(encoded_date(list_string)))]
    ELSE [acc EXCEPT !.wanted = FALSE]

\* The relational branch of check_date's loop (lines 450-466) for a pattern
\* with a year.
date_relation(date_string, list_index, operator, list_string, acc, game_year) ==
    IF game_year > MINDATE /\ game_year < MAXDATE
    THEN [wanted |-> IF list_index = 0
                     THEN relative_numeric_match(operator,
                              Dbl(encoded_date(date_string)),
                              Dbl(encoded_date(list_string)))
                     ELSE acc.wanted /\ relative_numeric_match(operator,
                              Dbl(encoded_date(date_string)),
                              Dbl(encoded_date(list_string))),
          log |-> IF relative_numeric_match_log(operator) = 1
                  THEN Append(acc.log,
                      "Internal error: missing case in call to relative_numeric_match.")
                  ELSE acc.log]
    ELSE [acc EXCEPT !.wanted = FALSE]

date_criterion_Quiet(date_string, list_index, operator, list_string, acc) ==
    IF operator # "NONE"
    THEN IF ScanU(list_string).ok
         THEN date_relation(date_string, list_index, operator, list_string, acc,
                  ScanU(date_string).val)
         ELSE [acc EXCEPT !.wanted = FALSE]
    ELSE IF list_index = 0 \/ ~acc.wanted
         THEN [acc EXCEPT !.wanted = IsPrefix(list_string, date_string)]
         ELSE acc

\* The body of check_date's loop once operator and list_string are set
\* (lines 446-484).
date_criterion(date_string, list_index, operator, list_string, acc) ==
    IF operator # "NONE"
    THEN IF ScanU(list_string).ok
         THEN date_relation(date_string, list_index, operator, list_string, acc,
                  ScanU(date_string).val)
         ELSE [wanted |-> FALSE,
               log |-> Append(acc.log, "Failed to extract year")]
    ELSE IF list_index = 0 \/ ~acc.wanted
         THEN [acc EXCEPT !.wanted = IsPrefix(list_string, date_string)]
         ELSE acc

\* One turn of check_date's for loop. acc: wanted, log.
check_date_turn(date_string, list_index, selection, acc) ==
    date_criterion(date_string, list_index, date_operator(selection),
        date_list_string(selection), acc)

RECURSIVE check_date_loop(_, _, _, _)
check_date_loop(date_string, entries, list_index, acc) ==
    IF ~(list_index < Len(entries)) THEN acc
    ELSE check_date_loop(date_string, entries, list_index + 1,
             check_date_turn(date_string, list_index, entries[list_index + 1], acc))

\* check_date(date_string, list): wanted, and the diagnostics written.
check_date(date_string, list) ==
    IF ScanU(date_string).ok
    THEN check_date_loop(date_string, Entries(list), 0,
             [wanted |-> FALSE, log |-> <<>>])
    ELSE [wanted |-> FALSE, log |-> <<>>]

-----------------------------------------------------------------------------
(* check_elo, check_time_period, check_time_control.                       *)

\* What one criterion makes of wanted in check_elo's and check_time_period's
\* loops, for the candidate string and its number.
numeric_turn(cand_string, cand_value, selection) ==
    IF selection.operator # "NONE"
    THEN ScanU(selection.tag_string).ok
         /\ relative_numeric_match(selection.operator, Dbl(cand_value),
                Dbl(ScanU(selection.tag_string).val))
    ELSE IsPrefix(selection.tag_string, cand_string)

\* The diagnostics that turn writes.
numeric_turn_log(selection) ==
    IF selection.operator # "NONE" /\ ScanU(selection.tag_string).ok
       /\ relative_numeric_match_log(selection.operator) = 1
    THEN <<"Internal error: missing case in call to relative_numeric_match.">>
    ELSE <<>>

numeric_loop_FirstOnly(cand_string, cand_value, entries, list_index, acc) ==
    IF entries = <<>> THEN acc
    ELSE [wanted |-> numeric_turn(cand_string, cand_value, entries[1]),
          log |-> numeric_turn_log(entries[1])]

\* The loop of check_elo and of check_time_period: over the criteria while
\* none has matched.
RECURSIVE numeric_loop(_, _, _, _, _)
numeric_loop(cand_string, cand_value, entries, list_index, acc) ==
    IF ~(list_index < Len(entries) /\ ~acc.wanted) THEN acc
    ELSE numeric_loop(cand_string, cand_value, entries, list_index + 1,
             [wanted |-> numeric_turn(cand_string, cand_value, entries[list_index + 1]),
              log |-> acc.log \o numeric_turn_log(entries[list_index + 1])])

\* check_elo(elo_string, list)
check_elo(elo_string, list) ==
    IF ScanU(elo_string).ok
    THEN numeric_loop(elo_string, ScanU(elo_string).val, Entries(list), 0,
             [wanted |-> FALSE, log |-> <<>>])
    ELSE [wanted |-> FALSE, log |-> <<>>]

\* check_time_period(tag_string, period, list)
check_time_period(tag_string, period, list) ==
    numeric_loop(tag_string, period, Entries(list), 0,
        [wanted |-> FALSE, log |-> <<>>])

time_control_first_Whole(tc_string) == tc_string

\* The copy of tc_string cut at its first ':'.
time_control_first(tc_string) ==
    IF StrChr(tc_string, ":") # 0
    THEN SubSeq(tc_string, 1, StrChr(tc_string, ":") - 1)
    ELSE tc_string

\* The period check_time_control reads from control, when it reads one:
\* period+increment, *period, moves/period or an all-digit period.
time_control_period(control) ==
    LET none == [ok |-> FALSE, val |-> 0, rest |-> <<>>]
    IN  IF StrChr(control, "+") # 0 THEN ScanU(control)
        ELSE IF First(control) = "*" THEN ScanU(Tail(control))
        ELSE IF StrChr(control, "/") # 0
             THEN ScanU(From(control, StrChr(control, "/") + 1))
        ELSE IF isdigit(First(control))
             THEN IF DigitRun(control) = Len(control) THEN ScanU(control) ELSE none
        ELSE none

\* check_time_control(tc_string, list)
check_time_control(tc_string, list) ==
    IF First(tc_string) \in {NUL, "?", "-"}
    THEN [wanted |-> FALSE, log |-> <<>>]
    ELSE LET control == time_control_first(tc_string)
             period == time_control_period(control)
         IN  IF period.ok THEN check_time_period(control, period.val, list)
             ELSE [wanted |-> FALSE, log |-> <<>>]

-----------------------------------------------------------------------------
(* The registry: init_tag_lists, extend_tag_list_length, add_to_taglist.   *)

\* INIT_LIST_SPACE and MORE_LIST_SPACE are set in a header; the model takes
\* small values, so that a list is allocated and grown within a few calls.
INIT_LIST_SPACE == 1
MORE_LIST_SPACE == 2

\* { 0, 0, NULL }
EmptyStringArray ==
    [num_allocated_elements |-> 0, num_used_elements |-> 0, tag_strings |-> <<>>]

\* A TagSelection of freshly allocated memory.
UninitSelection == [tag_string |-> Uninit, operator |-> Uninit]

\* TagLists after init_tag_lists().
InitTagLists == [i \in 0..(ORIGINAL_NUMBER_OF_TAGS - 1) |-> EmptyStringArray]

\* extend_tag_list_length(new_length) on the lists of length len: exit
\* when new_length is smaller, the longer table otherwise.
extend_tag_list_length(lists, len, new_length) ==
    IF new_length < len
    THEN [exit |-> TRUE, lists |-> lists, length |-> len]
    ELSE [exit |-> FALSE,
          lists |-> [i \in 0..(new_length - 1) |->
                        IF i < len THEN lists[i] ELSE EmptyStringArray],
          length |-> new_length]

\* The list with room for one more entry (malloc_or_die and realloc_or_die
\* return only when they have the memory).
taglist_space(list) ==
    IF list.num_allocated_elements = list.num_used_elements
    THEN IF list.num_allocated_elements = 0
         THEN [num_allocated_elements |-> INIT_LIST_SPACE,
               num_used_elements |-> 0,
               tag_strings |-> [i \in 1..(INIT_LIST_SPACE + 1) |-> UninitSelection]]
         ELSE [list EXCEPT
                 !.num_allocated_elements = @ + MORE_LIST_SPACE,
                 !.tag_strings = @ \o [i \in 1..MORE_LIST_SPACE |-> UninitSelection]]
    ELSE list

add_to_taglist_Front(str, list) ==
    LET spaced == taglist_space(list)
        ix == spaced.num_used_elements
        shifted == [i \in 1..Len(spaced.tag_strings) |->
                      IF i = 1 THEN [tag_string |-> str, operator |-> "NONE"]
                      ELSE IF i <= ix + 1 THEN spaced.tag_strings[i - 1]
                      ELSE IF i = ix + 2
                           THEN [spaced.tag_strings[i] EXCEPT !.tag_string = NULL]
                      ELSE spaced.tag_strings[i]]
    IN  [list |-> [spaced EXCEPT !.num_used_elements = ix + 1,
                                 !.tag_strings = shifted],
         ix |-> 0]

\* add_to_taglist(str, list): the list with str added, and its index.
add_to_taglist(str, list) ==
    LET spaced == taglist_space(list)
        ix == spaced.num_used_elements
    IN  [list |-> [spaced EXCEPT
                     !.num_used_elements = ix + 1,
                     !.tag_strings[ix + 1] = [tag_string |-> str, operator |-> "NONE"],
                     !.tag_strings[ix + 2].tag_string = NULL],
         ix |-> ix]

-----------------------------------------------------------------------------
(* The record selector.                                                    *)

\* The running state of an evaluation: wanted, the diagnostics written so
\* far and soundex's static buffer.
merge_check_list(r, acc) ==
    [wanted |-> r.wanted, log |-> acc.log \o r.log, sbuf |-> r.sbuf]

via_check_list(tag, tag_string, list, acc) ==
    merge_check_list(check_list(tag, tag_string, list, acc.sbuf), acc)

via(r, acc) == [wanted |-> r.wanted, log |-> acc.log \o r.log, sbuf |-> acc.sbuf]

\* "If we didn't find a player there, try for the opponent."
or_black_player(Details, w) ==
    IF ~w.wanted /\ Details[BLACK_TAG] # NULL
    THEN via_check_list(BLACK_TAG, Details[BLACK_TAG], TagLists[PSEUDO_PLAYER_TAG], w)
    ELSE w

pseudo_player_clause_WhiteOnly(Details, acc) ==
    IF TagLists[PSEUDO_PLAYER_TAG].num_used_elements # 0
    THEN IF Details[WHITE_TAG] # NULL
         THEN via_check_list(WHITE_TAG, Details[WHITE_TAG],
                  TagLists[PSEUDO_PLAYER_TAG], acc)
         ELSE [acc EXCEPT !.wanted = FALSE]
    ELSE acc

\* Lines 774-792: PSEUDO_PLAYER_TAG, against the white and the black player.
pseudo_player_clause(Details, acc) ==
    IF TagLists[PSEUDO_PLAYER_TAG].num_used_elements # 0
    THEN IF Details[WHITE_TAG] # NULL
         THEN or_black_player(Details,
                  via_check_list(WHITE_TAG, Details[WHITE_TAG],
                      TagLists[PSEUDO_PLAYER_TAG], acc))
         ELSE IF Details[BLACK_TAG] # NULL
         THEN via_check_list(BLACK_TAG, Details[BLACK_TAG],
                  TagLists[PSEUDO_PLAYER_TAG], acc)
         ELSE [acc EXCEPT !.wanted = FALSE]
    ELSE acc

\* "If we didn't find the ELO there, try for the opponent."
or_black_elo(Details, w) ==
    IF ~w.wanted /\ Details[BLACK_ELO_TAG] # NULL
    THEN via(check_elo(Details[BLACK_ELO_TAG], TagLists[PSEUDO_ELO_TAG]), w)
    ELSE w

\* Lines 794-815: PSEUDO_ELO_TAG, against the white and the black rating.
\* Its result replaces wanted, whatever the clause before made of it.
pseudo_elo_clause(Details, acc) ==
    IF TagLists[PSEUDO_ELO_TAG].num_used_elements # 0
    THEN IF Details[WHITE_ELO_TAG] # NULL
         THEN or_black_elo(Details,
                  via(check_elo(Details[WHITE_ELO_TAG], TagLists[PSEUDO_ELO_TAG]), acc))
         ELSE IF Details[BLACK_ELO_TAG] # NULL
         THEN via(check_elo(Details[BLACK_ELO_TAG], TagLists[PSEUDO_ELO_TAG]), acc)
         ELSE [acc EXCEPT !.wanted = FALSE]
    ELSE acc

\* One turn of the loop of lines 818-849.
remaining_tag(Details, tag, acc) ==
    IF tag \in {PSEUDO_PLAYER_TAG, PSEUDO_ELO_TAG, ECO_TAG} THEN acc
    ELSE IF TagLists[tag].num_used_elements # 0
    THEN IF Details[tag] # NULL
         THEN IF tag = DATE_TAG
              THEN via(check_date(Details[tag], TagLists[DATE_TAG]), acc)
              ELSE IF tag \in {WHITE_ELO_TAG, BLACK_ELO_TAG}
              THEN via(check_elo(Details[tag], TagLists[tag]), acc)
              ELSE IF tag = TIME_CONTROL_TAG
              THEN via(check_time_control(Details[tag],
                           TagLists[TIME_CONTROL_TAG]), acc)
              ELSE via_check_list(tag, Details[tag], TagLists[tag], acc)
         ELSE [acc EXCEPT !.wanted = FALSE]
    ELSE acc

RECURSIVE remaining_tags(_, _, _)
remaining_tags(Details, tag, acc) ==
    IF ~(tag < tag_list_length /\ acc.wanted) THEN acc
    ELSE remaining_tags(Details, tag + 1, remaining_tag(Details, tag, acc))

sanity_check_Unequal(num_details) == num_details # tag_list_length

\* The sanity check of lines 761-768 fails.
sanity_check(num_details) == num_details < tag_list_length

EvalStart_Unwanted == [wanted |-> FALSE, log |-> <<>>, sbuf |-> sbuf]

\* The state an evaluation starts in: Boolean wanted = TRUE.
EvalStart == [wanted |-> TRUE, log |-> <<>>, sbuf |-> sbuf]

\* check_tag_details_not_ECO(Details, num_details). exit: the call ended
\* in exit(1) and returned nothing.
check_tag_details_not_ECO(Details, num_details) ==
    IF check_tags
    THEN IF sanity_check(num_details)
         THEN [exit |-> TRUE, wanted |-> FALSE, sbuf |-> sbuf, log |->
                 <<"Internal error: mismatch in tag set lengths in CheckTagDetailsNotECO">>]
         ELSE [exit |-> FALSE] @@
              remaining_tags(Details, 0,
                  pseudo_elo_clause(Details, pseudo_player_clause(Details, EvalStart)))
    ELSE [exit |-> FALSE] @@ EvalStart

\* check_ECO_tag(Details)
check_ECO_tag(Details) ==
    [exit |-> FALSE] @@
    (IF check_tags /\ TagLists[ECO_TAG].num_used_elements # 0
     THEN IF Details[ECO_TAG] # NULL
          THEN via_check_list(ECO_TAG, Details[ECO_TAG], TagLists[ECO_TAG], EvalStart)
          ELSE [EvalStart EXCEPT !.wanted = FALSE]
     ELSE EvalStart)

-----------------------------------------------------------------------------
(* The calls of the engine, as actions.                                    *)

\* How many registrations a run makes.
MaxRegs == 2

\* Lines 306-309 of add_tag_to_list: the list with one more criterion.
register(list, string_to_store, operator) ==
    LET added == add_to_taglist(string_to_store, list)
    IN  [added.list EXCEPT !.tag_strings[added.ix + 1].operator = operator]

NoCall == [fn |-> "none", args |-> <<>>, ret |-> <<>>, done |-> FALSE]

\* An evaluation has returned and its caller has not yet taken the verdict.
Pending == call.fn \in {"check_tag_details_not_ECO", "check_ECO_tag"}

\* The caller of an evaluation takes its verdict and goes on.
Return ==
    /\ ~exited
    /\ Pending
    /\ call' = NoCall
    /\ UNCHANGED <<TagLists, tag_list_length, check_tags, use_soundex,
                   tag_match_anywhere, fen_patterns, logfile, exited, nregs,
                   sbuf, threads>>

valid_tag_NoLowerBound(tag, length) == tag < length

\* (tag >= 0) && (tag < tag_list_length), line 297.
valid_tag(tag, length) == tag >= 0 /\ tag < length

\* add_tag_to_list(tag, tagstr, operator)
add_tag_to_list(tag, tagstr, operator) ==
    /\ ~exited
    /\ ~Pending
    /\ nregs < MaxRegs
    /\ LET ext == IF tag >= tag_list_length
                  THEN extend_tag_list_length(TagLists, tag_list_length, tag + 1)
                  ELSE [exit |-> FALSE, lists |-> TagLists, length |-> tag_list_length]
           sx == use_soundex /\ soundex_tag(tag)
           buf1 == IF sx THEN SoundexBuf(tagstr, sbuf) ELSE sbuf
           string_to_store == IF sx THEN CStr(buf1) ELSE tagstr
       IN  /\ exited' = ext.exit
           /\ tag_list_length' = ext.length
           /\ IF tag = FEN_TAG
              THEN /\ fen_patterns' = Append(fen_patterns, tagstr)
                   /\ TagLists' = ext.lists
                   /\ logfile' = <<>>
                   /\ UNCHANGED <<check_tags, sbuf>>
              ELSE IF valid_tag(tag, ext.length)
              THEN /\ TagLists' = [ext.lists EXCEPT
                                     ![tag] = register(@, string_to_store, operator)]
                   /\ check_tags' = TRUE
                   /\ sbuf' = buf1
                   /\ logfile' = <<>>
                   /\ UNCHANGED fen_patterns
              ELSE /\ logfile' = <<"Illegal tag number in add_tag_to_list">>
                   /\ TagLists' = ext.lists
                   /\ UNCHANGED <<check_tags, sbuf, fen_patterns>>
    /\ nregs' = nregs + 1
    /\ call' = [fn |-> "add_tag_to_list",
                args |-> [tag |-> tag, tagstr |-> tagstr, operator |-> operator],
                ret |-> <<>>, done |-> TRUE]
    /\ UNCHANGED <<use_soundex, tag_match_anywhere, threads>>

\* An evaluation fn(args) ends with r: the verdict is handed to the caller,
\* or the process has exited.
Evaluated(fn, args, r) ==
    /\ exited' = r.exit
    /\ logfile' = r.log
    /\ sbuf' = r.sbuf
    /\ call' = [fn |-> fn, args |-> args, ret |-> [wanted |-> r.wanted],
                done |-> ~r.exit]
    /\ UNCHANGED <<TagLists, tag_list_length, check_tags, use_soundex,
                   tag_match_anywhere, fen_patterns, nregs, threads>>

\* A call of check_tag_details_not_ECO(Details, num_details).
CheckTagDetailsNotECO(Details, num_details) ==
    /\ ~exited
    /\ ~Pending
    /\ Evaluated("check_tag_details_not_ECO",
           [Details |-> Details, num_details |-> num_details],
           check_tag_details_not_ECO(Details, num_details))

\* A call of check_ECO_tag(Details).
CheckECOTag(Details) ==
    /\ ~exited
    /\ ~Pending
    /\ Evaluated("check_ECO_tag", [Details |-> Details], check_ECO_tag(Details))

-----------------------------------------------------------------------------
(* The specification of the engine: registrations and evaluations in any   *)
(* order, on small sets of criteria and records.                           *)

S_Tal == <<"T", "a", "l">>
S_Talj == <<"T", "a", "l", "j">>
S_Fine == <<"F", "i", "n", "e">>
S_2700 == <<"2", "7", "0", "0">>
S_2750 == <<"2", "7", "5", "0">>
S_2600 == <<"2", "6", "0", "0">>
S_B == <<"B">>
S_B12 == <<"B", "1", "2">>
S_x == <<"x">>

\* The registrations a run chooses from.
RegInputs ==
    {[tag |-> -1, tagstr |-> S_Tal, operator |-> "NONE"],
     [tag |-> FEN_TAG, tagstr |-> S_x, operator |-> "NONE"],
     [tag |-> PSEUDO_PLAYER_TAG, tagstr |-> S_Tal, operator |-> "NONE"],
     [tag |-> PSEUDO_ELO_TAG, tagstr |-> S_2700, operator |-> "GREATER_THAN"],
     [tag |-> WHITE_ELO_TAG, tagstr |-> S_2700, operator |-> "LESS_THAN"],
     [tag |-> WHITE_ELO_TAG, tagstr |-> S_2600, operator |-> "GREATER_THAN_OR_EQUAL_TO"],
     [tag |-> ECO_TAG, tagstr |-> S_B, operator |-> "NONE"],
     [tag |-> ORIGINAL_NUMBER_OF_TAGS, tagstr |-> S_x, operator |-> "NONE"]}

\* The tag values of the records a run evaluates.
RecordInputs ==
    [white : {NULL, S_Talj, S_Fine}, black : {NULL, S_Tal},
     white_elo : {NULL, S_2750}, black_elo : {NULL, S_2600},
     other : {NULL, S_B12}]

\* The Details array of num_details entries of such a record.
DetailsOf(rec, num_details) ==
    [tag \in 0..(num_details - 1) |->
        CASE tag = WHITE_TAG -> rec.white
          [] tag = BLACK_TAG -> rec.black
          [] tag = WHITE_ELO_TAG -> rec.white_elo
          [] tag = BLACK_ELO_TAG -> rec.black_elo
          [] OTHER -> rec.other]

Init ==
    /\ TagLists = InitTagLists
    /\ tag_list_length = ORIGINAL_NUMBER_OF_TAGS
    /\ check_tags = FALSE
    /\ use_soundex \in BOOLEAN
    /\ tag_match_anywhere = FALSE
    /\ fen_patterns = <<>>
    /\ logfile = <<>>
    /\ exited = FALSE
    /\ nregs = 0
    /\ call = NoCall
    /\ sbuf = EmptyBuf
    /\ threads = <<>>

Register == \E in \in RegInputs : add_tag_to_list(in.tag, in.tagstr, in.operator)

EvaluateDetails ==
    \E rec \in RecordInputs :
        \E num_details \in (tag_list_length - 1)..(tag_list_length + 1) :
            CheckTagDetailsNotECO(DetailsOf(rec, num_details), num_details)

EvaluateECO ==
    \E rec \in RecordInputs : CheckECOTag(DetailsOf(rec, tag_list_length))

Next == Register \/ EvaluateDetails \/ EvaluateECO \/ Return

Spec == Init /\ [][Next]_vars

-----------------------------------------------------------------------------
(* Properties of the record selector, checked under Spec.                  *)

\* The last call was check_tag_details_not_ECO and it returned a verdict.
DetailsReturned == call.fn = "check_tag_details_not_ECO" /\ call.done

HasCriteria(tag) == TagLists[tag].num_used_elements # 0

\* No criterion is stored in any list.
NoCriteria == \A tag \in 0..(tag_list_length - 1) : ~HasCriteria(tag)

\* The value v of a record is present and check_list finds it in the
\* either-player list.
EitherPlayerMatch(tag, v) ==
    v # NULL /\ check_list(tag, v, TagLists[PSEUDO_PLAYER_TAG], EmptyBuf).wanted

\* The value v of a record is present and check_elo finds it in the
\* either-rating list.
EitherEloMatch(v) == v # NULL /\ check_elo(v, TagLists[PSEUDO_ELO_TAG]).wanted

\* C1: when the either-player tag has criteria and neither the white nor
\* the black value of the record matches them, check_tag_details_not_ECO
\* returns FALSE, whatever else is registered.
C1_EitherPlayerAnded ==
    (/\ DetailsReturned
     /\ HasCriteria(PSEUDO_PLAYER_TAG)
     /\ ~EitherPlayerMatch(WHITE_TAG, call.args.Details[WHITE_TAG])
     /\ ~EitherPlayerMatch(BLACK_TAG, call.args.Details[BLACK_TAG]))
    => ~call.ret.wanted

\* C4 as claimed: check_tag_details_not_ECO ends in the fatal error exactly
\* when num_details differs from tag_list_length.
C4_ExitIffUnequal ==
    call.fn = "check_tag_details_not_ECO"
    => (exited <=> call.args.num_details # tag_list_length)

\* C4: check_tag_details_not_ECO ends in the fatal error exactly when
\* criteria are being checked (check_tags) and num_details is smaller than
\* tag_list_length; a larger num_details, or any num_details while
\* check_tags is off, gets a verdict.
C4_ExitIffSmaller ==
    call.fn = "check_tag_details_not_ECO"
    => /\ exited <=> (check_tags /\ call.args.num_details < tag_list_length)
       /\ call.done <=> ~exited

\* Both outcomes of a mismatch are seen after the registry has grown: here
\* the fatal error on a num_details that is too small.
C4_Witness ==
    /\ call.fn = "check_tag_details_not_ECO"
    /\ exited
    /\ tag_list_length > ORIGINAL_NUMBER_OF_TAGS
    /\ call.args.num_details < tag_list_length

\* C6: while no criterion is stored, check_tag_details_not_ECO and
\* check_ECO_tag return TRUE for every record.
C6_NoCriteriaAllWanted ==
    (Pending /\ NoCriteria) => (~exited /\ call.done /\ call.ret.wanted)

\* A record without any tag value is accepted after a dropped and a
\* forwarded registration.
C6_Witness ==
    /\ DetailsReturned
    /\ NoCriteria
    /\ nregs = 2
    /\ fen_patterns # <<>>
    /\ \A tag \in DOMAIN call.args.Details : call.args.Details[tag] = NULL
    /\ call.ret.wanted

\* Criteria are stored for the either-player tag and for no other.
OnlyEitherPlayer ==
    \A tag \in 0..(tag_list_length - 1) :
        HasCriteria(tag) <=> tag = PSEUDO_PLAYER_TAG

\* C7: with criteria for the either-player tag only, the verdict is TRUE
\* exactly when the white value is present and matches the list or the
\* black value is present and matches it.
C7_EitherPlayerFallback ==
    (DetailsReturned /\ OnlyEitherPlayer)
    => (call.ret.wanted <=>
           \/ EitherPlayerMatch(WHITE_TAG, call.args.Details[WHITE_TAG])
           \/ EitherPlayerMatch(BLACK_TAG, call.args.Details[BLACK_TAG]))

\* White is absent, black matches, and the record is accepted.
C7_Witness ==
    /\ DetailsReturned
    /\ OnlyEitherPlayer
    /\ call.args.Details[WHITE_TAG] = NULL
    /\ call.args.Details[BLACK_TAG] # NULL
    /\ call.ret.wanted

-----------------------------------------------------------------------------
(* The matchers on their own: a specification draws a candidate and a      *)
(* criterion list, as registration builds it, and applies one matcher.     *)

\* The longest criterion list drawn.
MaxListLen == 2

\* The list add_tag_to_list builds from the criteria cs, in their order.
RECURSIVE ListOf(_)
ListOf(cs) ==
    IF cs = <<>> THEN EmptyStringArray
    ELSE register(ListOf(SubSeq(cs, 1, Len(cs) - 1)),
             cs[Len(cs)].tag_string, cs[Len(cs)].operator)

\* The non-empty sequences over S of at most MaxListLen elements.
CriteriaOver(S) == UNION {[1..k -> S] : k \in 1..MaxListLen}

\* A matcher fn is about to be called on a candidate and a list.
MatcherCalls(fn, tag, candidates, criteria) ==
    {[fn |-> fn,
      args |-> [tag |-> tag, tag_string |-> c, list |-> ListOf(cs)],
      ret |-> <<>>, done |-> FALSE] : c \in candidates, cs \in CriteriaOver(criteria)}

\* The engine outside any call, with the match configuration given.
Configured(soundexes, anywheres) ==
    /\ TagLists = InitTagLists
    /\ tag_list_length = ORIGINAL_NUMBER_OF_TAGS
    /\ check_tags = FALSE
    /\ use_soundex \in soundexes
    /\ tag_match_anywhere \in anywheres
    /\ fen_patterns = <<>>
    /\ logfile = <<>>
    /\ exited = FALSE
    /\ nregs = 0
    /\ sbuf = EmptyBuf
    /\ threads = <<>>

\* The called matcher returns r.
Matched(r) ==
    /\ call' = [call EXCEPT !.ret = r, !.done = TRUE]
    /\ logfile' = r.log
    /\ UNCHANGED <<TagLists, tag_list_length, check_tags, use_soundex,
                   tag_match_anywhere, fen_patterns, exited, nregs, threads>>

\* The criteria of the list of the call.
CallEntries == Entries(call.args.list)

\* The comparison lhs operator rhs of two integers, written out.
Compares(operator, lhs, rhs) ==
    \/ operator = "LESS_THAN" /\ lhs < rhs
    \/ operator = "LESS_THAN_OR_EQUAL_TO" /\ ~(lhs > rhs)
    \/ operator = "GREATER_THAN" /\ lhs > rhs
    \/ operator = "GREATER_THAN_OR_EQUAL_TO" /\ ~(lhs < rhs)
    \/ operator = "EQUAL_TO" /\ lhs = rhs
    \/ operator = "NOT_EQUAL_TO" /\ lhs # rhs

-----------------------------------------------------------------------------
(* check_list.                                                             *)

S_12 == <<"1", "2">>
S_1 == <<"1">>
S_20 == <<"2", "0">>
S_ab == <<"a", "b">>
S_ba == <<"b", "a">>
S_a == <<"a">>
S_hat_a == <<"^", "a">>
S_bracket == <<"[">>
S_plus == <<"+">>
S_1_5 == <<"1", ".", "5">>

ListCandidates == {S_12, S_1_5, S_20, <<>>, S_plus, S_ab, S_ba}

ListCriteria ==
    [tag_string : {S_1, S_20, S_a, S_hat_a, S_bracket},
     operator : {"NONE", "LESS_THAN", "GREATER_THAN_OR_EQUAL_TO", "REGEX"}]

InitList ==
    /\ Configured({FALSE}, BOOLEAN)
    /\ call \in MatcherCalls("check_list", ECO_TAG, ListCandidates, ListCriteria)

\* The call of check_list.
CheckList ==
    /\ call.fn = "check_list"
    /\ ~call.done
    /\ Matched(check_list(call.args.tag, call.args.tag_string, call.args.list, sbuf))
    /\ sbuf' = call'.ret.sbuf

SpecList == InitList /\ [][CheckList]_vars

ListReturned == call.fn = "check_list" /\ call.done

\* The text of a criterion is a prefix of the candidate or, in
\* match-anywhere mode, occurs in it.
PlainHit(selection) ==
    IF tag_match_anywhere
    THEN IsSubstring(selection.tag_string, call.args.tag_string)
    ELSE IsPrefix(selection.tag_string, call.args.tag_string)

\* C2: for a list of regex criteria none of whose texts plain-matches the
\* candidate, check_list does not enter the relational pass and returns
\* TRUE exactly when some pattern compiles and matches the candidate.
C2_RegexListsByRegexOnly ==
    (/\ ListReturned
     /\ \A i \in 1..Len(CallEntries) :
            CallEntries[i].operator = "REGEX" /\ ~PlainHit(CallEntries[i]))
    => /\ ~call.ret.range_pass
       /\ call.ret.wanted <=>
              \E i \in 1..Len(CallEntries) :
                  /\ regcomp(CallEntries[i].tag_string)
                  /\ regexec(CallEntries[i].tag_string, call.args.tag_string)

\* C3: only a criterion without operator makes check_list return TRUE by
\* the plain test of its text.
C3_PlainPassOnlyForNone ==
    (ListReturned /\ call.ret.plain)
    => \E i \in 1..Len(CallEntries) :
           CallEntries[i].operator = "NONE" /\ PlainHit(CallEntries[i])

-----------------------------------------------------------------------------
(* check_date.                                                             *)

S_1995 == <<"1", "9", "9", "5">>
S_1995_06_01 == <<"1", "9", "9", "5", ".", "0", "6", ".", "0", "1">>
S_1995_q == <<"1", "9", "9", "5", ".", "?", "?", ".", "?", "?">>
S_2000_01_01 == <<"2", "0", "0", "0", ".", "0", "1", ".", "0", "1">>
S_99_12_31 == <<"9", "9", ".", "1", "2", ".", "3", "1">>
S_1990 == <<"1", "9", "9", "0">>
S_b1995_06_01 == <<"b">> \o S_1995_06_01
S_a1990 == <<"a">> \o S_1990
S_429497 == <<"4", "2", "9", "4", "9", "7">>

DateCandidates == {S_1995, S_1995_06_01, S_1995_q, S_2000_01_01, S_99_12_31, <<>>}

DateCriteria ==
    [tag_string : {S_1990, S_2000_01_01, S_b1995_06_01, S_a1990, S_429497, S_x},
     operator : {"NONE", "LESS_THAN", "GREATER_THAN_OR_EQUAL_TO", "EQUAL_TO"}]

InitDate ==
    /\ Configured({FALSE}, {FALSE})
    /\ call \in MatcherCalls("check_date", DATE_TAG, DateCandidates, DateCriteria)

\* The call of check_date.
CheckDate ==
    /\ call.fn = "check_date"
    /\ ~call.done
    /\ Matched(check_date(call.args.tag_string, call.args.list))
    /\ UNCHANGED sbuf

SpecDate == InitDate /\ [][CheckDate]_vars

DateReturned == call.fn = "check_date" /\ call.done

\* The operator in effect for a date criterion, and the text of its date.
EffectiveOperator(selection) ==
    CASE First(selection.tag_string) = "b" -> "LESS_THAN"
      [] First(selection.tag_string) = "a" -> "GREATER_THAN"
      [] OTHER -> selection.operator

PatternDate(selection) ==
    IF First(selection.tag_string) \in {"a", "b"} THEN Tail(selection.tag_string)
    ELSE selection.tag_string

\* Every criterion of the call has an effective relational operator and a
\* pattern date with a year, and the candidate's year is within the limits.
AllDateRelations ==
    /\ \A i \in 1..Len(CallEntries) :
           /\ EffectiveOperator(CallEntries[i]) \in RelationalOps
           /\ ScanU(PatternDate(CallEntries[i])).ok
    /\ ScanU(call.args.tag_string).ok
    /\ ScanU(call.args.tag_string).val > 100
    /\ ScanU(call.args.tag_string).val < 3000

\* The comparison one criterion makes of the two encoded dates.
DateComparison(selection) ==
    Compares(EffectiveOperator(selection), encoded_date(call.args.tag_string),
        encoded_date(PatternDate(selection)))

Reverse(s) == [i \in 1..Len(s) |-> s[Len(s) + 1 - i]]

\* C8: when every date criterion is relational with a parseable pattern
\* date and the candidate's year is strictly between 100 and 3000,
\* check_date returns TRUE exactly when every criterion's comparison of the
\* encoded dates is true, and returns the same for the criteria in the
\* reverse order.
C8_DateRelationalAnd ==
    (DateReturned /\ AllDateRelations)
    => /\ call.ret.wanted <=>
              \A i \in 1..Len(CallEntries) : DateComparison(CallEntries[i])
       /\ check_date(call.args.tag_string,
              ListOf(Reverse(CallEntries))).wanted = call.ret.wanted

\* C8: two relational criteria, the first true of the candidate and the
\* second too, made check_date return TRUE.
C8_Witness ==
    /\ DateReturned
    /\ AllDateRelations
    /\ Len(CallEntries) = 2
    /\ EffectiveOperator(CallEntries[1]) # EffectiveOperator(CallEntries[2])
    /\ call.ret.wanted
-----------------------------------------------------------------------------
(* check_elo.                                                              *)

S_27 == <<"2", "7">>
S_27x == <<"2", "7", "x">>
S_plus1 == <<"+", "1">>

EloCandidates == {S_2750, S_2600, S_27x, S_plus1, S_x, <<>>}

EloCriteria ==
    [tag_string : {S_2700, S_2750, S_27, S_x},
     operator : {"NONE", "GREATER_THAN", "LESS_THAN_OR_EQUAL_TO", "NOT_EQUAL_TO",
                 "REGEX"}]

InitElo ==
    /\ Configured({FALSE}, {FALSE})
    /\ call \in MatcherCalls("check_elo", WHITE_ELO_TAG, EloCandidates, EloCriteria)

\* The call of check_elo.
CheckElo ==
    /\ call.fn = "check_elo"
    /\ ~call.done
    /\ Matched(check_elo(call.args.tag_string, call.args.list))
    /\ UNCHANGED sbuf

SpecElo == InitElo /\ [][CheckElo]_vars

EloReturned == call.fn = "check_elo" /\ call.done

\* A criterion succeeds on its own for the candidate string and its number.
SucceedsAlone(selection, cand_string, cand_value) ==
    IF selection.operator = "NONE"
    THEN IsPrefix(selection.tag_string, cand_string)
    ELSE /\ ScanU(selection.tag_string).ok
         /\ Compares(selection.operator, cand_value,
                ScanU(selection.tag_string).val)

-----------------------------------------------------------------------------
(* check_time_control.                                                     *)

S_600 == <<"6", "0", "0">>
S_600_300 == <<"6", "0", "0", ":", "3", "0", "0">>
S_40_7200 == <<"4", "0", "/", "7", "2", "0", "0">>
S_40_7200_3600 == S_40_7200 \o <<":", "3", "6", "0", "0">>
S_300plus5 == <<"3", "0", "0", "+", "5">>
S_star180 == <<"*", "1", "8", "0">>
S_G60 == <<"G", "6", "0">>
S_6x == <<"6", "x">>
S_colon30 == <<":", "3", "0">>
S_question == <<"?">>
S_minus == <<"-">>
S_40slash == <<"4", "0", "/">>
S_G == <<"G">>
S_7200 == <<"7", "2", "0", "0">>

TimeControlCandidates ==
    {S_600, S_600_300, S_40_7200, S_40_7200_3600, S_300plus5, S_star180, S_G60,
     S_6x, S_colon30, S_question, S_minus, <<>>}

TimeControlCriteria ==
    [tag_string : {S_600, S_40slash, S_G, S_7200, S_x},
     operator : {"NONE", "GREATER_THAN_OR_EQUAL_TO", "LESS_THAN", "EQUAL_TO"}]

InitTimeControl ==
    /\ Configured({FALSE}, {FALSE})
    /\ call \in MatcherCalls("check_time_control", TIME_CONTROL_TAG,
                    TimeControlCandidates, TimeControlCriteria)

\* The call of check_time_control.
CheckTimeControl ==
    /\ call.fn = "check_time_control"
    /\ ~call.done
    /\ Matched(check_time_control(call.args.tag_string, call.args.list))
    /\ UNCHANGED sbuf

SpecTimeControl == InitTimeControl /\ [][CheckTimeControl]_vars

TimeControlReturned == call.fn = "check_time_control" /\ call.done

\* The portion of s before its first ':', all of s when it has none.
BeforeColon(s) ==
    SubSeq(s, 1, CHOOSE n \in 0..Len(s) :
                     /\ \A i \in 1..n : s[i] # ":"
                     /\ n < Len(s) => s[n + 1] = ":")

\* The candidate is one check_time_control compares at all.
Comparable(s) == s # <<>> /\ s[1] \notin {"?", "-"}

\* Some criterion of the call succeeds on its own for the truncated
\* candidate and the period read from it.
SomeTimeCriterion ==
    \E i \in 1..Len(CallEntries) :
        SucceedsAlone(CallEntries[i], BeforeColon(call.args.tag_string),
            time_control_period(BeforeColon(call.args.tag_string)).val)

\* C10 as stated: every candidate that is not empty and starts with neither
\* '?' nor '-' is wanted exactly when some no-operator pattern is a prefix
\* of its portion before the first ':' or some relational criterion holds
\* of the period; an empty, '?' or '-' candidate is not wanted.
C10_TruncatedForEvery ==
    TimeControlReturned
    => IF Comparable(call.args.tag_string)
       THEN call.ret.wanted <=>
                \E i \in 1..Len(CallEntries) :
                    \/ /\ CallEntries[i].operator = "NONE"
                       /\ IsPrefix(CallEntries[i].tag_string,
                              BeforeColon(call.args.tag_string))
                    \/ /\ CallEntries[i].operator # "NONE"
                       /\ time_control_period(BeforeColon(call.args.tag_string)).ok
                       /\ SucceedsAlone(CallEntries[i],
                              BeforeColon(call.args.tag_string),
                              time_control_period(
                                  BeforeColon(call.args.tag_string)).val)
       ELSE ~call.ret.wanted

\* C10: a candidate that is not empty, starts with neither '?' nor '-' and
\* has a period in its portion before the first ':' is wanted exactly when
\* some no-operator pattern is a prefix of that portion or some relational
\* criterion holds of the period; every other candidate is not wanted.
C10_TruncatedWithPeriod ==
    TimeControlReturned
    => IF /\ Comparable(call.args.tag_string)
          /\ time_control_period(BeforeColon(call.args.tag_string)).ok
       THEN call.ret.wanted <=> SomeTimeCriterion
       ELSE ~call.ret.wanted

\* C10: a candidate of two controls was wanted for a relational criterion
\* that holds of the period of its first control.
C10_Witness ==
    /\ TimeControlReturned
    /\ StrChr(call.args.tag_string, ":") > 1
    /\ \A i \in 1..Len(CallEntries) : CallEntries[i].operator \in RelationalOps
    /\ call.ret.wanted

-----------------------------------------------------------------------------
(* Two threads evaluating records after registration is over. The steps    *)
(* of a thread are cut where it writes or reads soundex's static buffer;   *)
(* what a thread computes between two such points touches nothing another  *)
(* thread writes and is taken in one step.                                 *)

Threads == {"t1", "t2"}

IdleThread ==
    [pc |-> "idle", fn |-> "none", Details |-> <<>>, tag |-> 0,
     st |-> <<>>, wanted |-> TRUE]

\* The tag values of the records the threads evaluate.
ThreadRecordInputs ==
    [white : {NULL, S_Talj, S_Fine}, black : {NULL}, white_elo : {NULL},
     black_elo : {NULL}, other : {NULL, S_B12}]

\* The registry after add_tag_to_list(WHITE_TAG, "Tal", NONE) and
\* add_tag_to_list(ECO_TAG, "B", NONE).
InitThreads ==
    /\ use_soundex \in BOOLEAN
    /\ tag_match_anywhere = FALSE
    /\ TagLists = [InitTagLists EXCEPT
                     ![WHITE_TAG] = register(@, IF use_soundex /\ soundex_tag(WHITE_TAG)
                                                THEN soundex(S_Tal) ELSE S_Tal, "NONE"),
                     ![ECO_TAG] = register(@, IF use_soundex /\ soundex_tag(ECO_TAG)
                                              THEN soundex(S_B) ELSE S_B, "NONE")]
    /\ tag_list_length = ORIGINAL_NUMBER_OF_TAGS
    /\ check_tags = TRUE
    /\ fen_patterns = <<>>
    /\ logfile = <<>>
    /\ exited = FALSE
    /\ nregs = 2
    /\ call = NoCall
    /\ sbuf = IF use_soundex THEN SoundexBuf(S_Tal, EmptyBuf) ELSE EmptyBuf
    /\ threads = [t \in Threads |-> IdleThread]

calls_soundex_Always(Details, tag) ==
    /\ tag \notin {PSEUDO_PLAYER_TAG, PSEUDO_ELO_TAG, ECO_TAG, DATE_TAG,
                   WHITE_ELO_TAG, BLACK_ELO_TAG, TIME_CONTROL_TAG}
    /\ TagLists[tag].num_used_elements # 0
    /\ Details[tag] # NULL

\* The turn of the loop of lines 818-849 for tag calls soundex (line 639).
calls_soundex(Details, tag) ==
    /\ tag \notin {PSEUDO_PLAYER_TAG, PSEUDO_ELO_TAG, ECO_TAG, DATE_TAG,
                   WHITE_ELO_TAG, BLACK_ELO_TAG, TIME_CONTROL_TAG}
    /\ TagLists[tag].num_used_elements # 0
    /\ Details[tag] # NULL
    /\ check_list_soundex(tag)

\* The loop of lines 818-849 from tag on, up to its end or to the turn
\* that calls soundex.
RECURSIVE tags_to_soundex(_, _, _)
tags_to_soundex(Details, tag, acc) ==
    IF ~(tag < tag_list_length /\ acc.wanted)
    THEN [tag |-> tag, soundex |-> FALSE, acc |-> acc]
    ELSE IF calls_soundex(Details, tag)
    THEN [tag |-> tag, soundex |-> TRUE, acc |-> acc]
    ELSE tags_to_soundex(Details, tag + 1, remaining_tag(Details, tag, acc))

ThreadStep(t, th, buf, log) ==
    /\ threads' = [threads EXCEPT ![t] = th]
    /\ sbuf' = buf
    /\ logfile' = logfile \o log
    /\ UNCHANGED <<TagLists, tag_list_length, check_tags, use_soundex,
                   tag_match_anywhere, fen_patterns, exited, nregs, call>>

SoundexLocals(st) == [str |-> st.str, sindex |-> st.sindex, lastc |-> st.lastc]

\* Thread t calls check_ECO_tag(Details): ECO_TAG is no soundex tag, and
\* the call is over in one step.
T_CheckECOTag(t, Details) ==
    /\ threads[t].pc = "idle"
    /\ ThreadStep(t, [threads[t] EXCEPT
                        !.pc = "returned", !.fn = "check_ECO_tag",
                        !.Details = Details,
                        !.wanted = check_ECO_tag(Details).wanted],
           sbuf, check_ECO_tag(Details).log)

T_Entered(t, Details, acc) ==
    ThreadStep(t, [threads[t] EXCEPT
                     !.pc = IF check_tags THEN "tags" ELSE "returned",
                     !.fn = "check_tag_details_not_ECO",
                     !.Details = Details, !.tag = 0, !.wanted = acc.wanted],
        acc.sbuf, acc.log)

\* Thread t calls check_tag_details_not_ECO(Details, tag_list_length) and
\* comes to the loop of lines 818-849.
T_CheckTagDetailsNotECO(t, Details) ==
    /\ threads[t].pc = "idle"
    /\ T_Entered(t, Details,
           IF check_tags
           THEN pseudo_elo_clause(Details, pseudo_player_clause(Details, EvalStart))
           ELSE EvalStart)

T_TagsDone(t, r) ==
    IF r.soundex
    THEN ThreadStep(t, [threads[t] EXCEPT
                          !.pc = "soundex", !.tag = r.tag,
                          !.st = SoundexLocals(SoundexBegin(threads[t].Details[r.tag], sbuf))],
             SoundexBegin(threads[t].Details[r.tag], sbuf).buf, r.acc.log)
    ELSE ThreadStep(t, [threads[t] EXCEPT
                          !.pc = "returned", !.tag = r.tag, !.wanted = r.acc.wanted],
             sbuf, r.acc.log)

\* Thread t runs the loop up to its end or into soundex, as far as the
\* while loop of soundex.
T_Tags(t) ==
    /\ threads[t].pc = "tags"
    /\ T_TagsDone(t, tags_to_soundex(threads[t].Details, threads[t].tag,
                         [wanted |-> threads[t].wanted, log |-> <<>>, sbuf |-> sbuf]))

\* Thread t makes one turn of soundex's while loop.
T_SoundexIter(t) ==
    /\ threads[t].pc = "soundex"
    /\ SoundexLoopCond(threads[t].st)
    /\ ThreadStep(t, [threads[t] EXCEPT
                        !.st = SoundexLocals(SoundexIter(threads[t].st, sbuf))],
           SoundexIter(threads[t].st, sbuf).buf, <<>>)

\* Thread t leaves soundex's while loop, terminates sbuf and returns it.
T_SoundexEnd(t) ==
    /\ threads[t].pc = "soundex"
    /\ ~SoundexLoopCond(threads[t].st)
    /\ ThreadStep(t, [threads[t] EXCEPT !.pc = "match"],
           SoundexEnd(threads[t].st, sbuf), <<>>)

T_Matched(t, r) ==
    ThreadStep(t, [threads[t] EXCEPT
                     !.pc = "tags", !.tag = @ + 1, !.wanted = r.wanted],
        sbuf, r.log)

\* Thread t runs check_list from line 644 on, with search_str pointing to
\* sbuf.
T_Match(t) ==
    /\ threads[t].pc = "match"
    /\ T_Matched(t, check_list_search(CStr(sbuf), TagLists[threads[t].tag]))

T_Call(t) ==
    \E rec \in ThreadRecordInputs :
        \/ T_CheckTagDetailsNotECO(t, DetailsOf(rec, tag_list_length))
        \/ T_CheckECOTag(t, DetailsOf(rec, tag_list_length))

NextThreads ==
    \E t \in Threads :
        T_Call(t) \/ T_Tags(t) \/ T_SoundexIter(t) \/ T_SoundexEnd(t) \/ T_Match(t)

SpecThreads == InitThreads /\ [][NextThreads]_vars

\* What the evaluation of thread t returns when it runs alone.
Alone(t) ==
    IF threads[t].fn = "check_ECO_tag"
    THEN check_ECO_tag(threads[t].Details).wanted
    ELSE check_tag_details_not_ECO(threads[t].Details, tag_list_length).wanted

\* C5 as stated: whatever the match configuration, an evaluation that has
\* returned in one thread while another thread evaluates has returned what
\* it returns alone.
C5_VerdictAsAlone ==
    \A t \in Threads : threads[t].pc = "returned" => threads[t].wanted = Alone(t)

\* C5: with phonetic normalization off, an evaluation that has returned in
\* one thread while another thread evaluates has returned what it returns
\* alone.
C5_VerdictAsAloneNoSoundex ==
    ~use_soundex
    => \A t \in Threads : threads[t].pc = "returned" => threads[t].wanted = Alone(t)

\* C5: with phonetic normalization off, both threads have returned from
\* check_tag_details_not_ECO on different records, with different verdicts.
C5_Witness ==
    /\ ~use_soundex
    /\ \A t \in Threads :
           threads[t].pc = "returned" /\ threads[t].fn = "check_tag_details_not_ECO"
    /\ threads["t1"].Details # threads["t2"].Details
    /\ threads["t1"].wanted # threads["t2"].wanted

-----------------------------------------------------------------------------
(* Registration.                                                           *)

\* The step is a call of add_tag_to_list.
Registered == nregs' = nregs + 1

\* C11: a call of add_tag_to_list with a negative tag code writes its
\* diagnostic and leaves every criterion list, the tag-code-space size,
\* the has-constraints flag, the board-position patterns and soundex's
\* buffer as they were, and the run goes on.
C11_NegativeTagNoOp ==
    [][(Registered /\ call'.args.tag < 0)
       => /\ TagLists' = TagLists
          /\ tag_list_length' = tag_list_length
          /\ check_tags' = check_tags
          /\ fen_patterns' = fen_patterns
          /\ sbuf' = sbuf
          /\ ~exited'
          /\ logfile' = <<"Illegal tag number in add_tag_to_list">>]_vars

\* C11: a call with a negative tag code has returned in a run that had
\* stored a criterion before.
C11_Witness ==
    /\ call.fn = "add_tag_to_list"
    /\ call.args.tag < 0
    /\ check_tags
    /\ nregs = 2
    /\ logfile = <<"Illegal tag number in add_tag_to_list">>


\* The criterion a registration stores: the text given, or its soundex
\* code for a name-like tag under phonetic normalization, and the operator.
StoredCriterion(args) ==
    [tag_string |-> IF use_soundex /\ args.tag \in {EVENT_TAG, WHITE_TAG, BLACK_TAG,
                                                    PSEUDO_PLAYER_TAG}
                    THEN soundex(args.tagstr) ELSE args.tagstr,
     operator |-> args.operator]

\* The criteria of tag in lists, none for a tag outside the tag-code space.
CriteriaOf(lists, tag) ==
    IF tag \in DOMAIN lists THEN Entries(lists[tag]) ELSE <<>>

\* A list uses no more entries than it has, and the entry after its last
\* used one is the NULL terminator.
Terminated(list) ==
    /\ list.num_used_elements <= list.num_allocated_elements
    /\ list.num_allocated_elements > 0
       => /\ Len(list.tag_strings) = list.num_allocated_elements + 1
          /\ list.tag_strings[list.num_used_elements + 1].tag_string = NULL

\* A registration that stores a criterion appends it to the list of its
\* tag; any registration leaves every other list as it was.
RegistrationAppends ==
    Registered /\ ~exited'
    => /\ \A tag \in DOMAIN TagLists' :
              CriteriaOf(TagLists', tag) =
                  IF tag = call'.args.tag /\ tag # FEN_TAG
                  THEN Append(CriteriaOf(TagLists, tag), StoredCriterion(call'.args))
                  ELSE CriteriaOf(TagLists, tag)
       /\ DOMAIN TagLists \subseteq DOMAIN TagLists'
       /\ DOMAIN TagLists' = 0..(tag_list_length' - 1)

\* C12: every registration for a valid tag other than the board-position
\* tag appends its criterion, with its operator, at the end of the tag's
\* list and leaves the earlier entries and all other lists unchanged, also
\* when the tag-code space or the list grows; no list uses more entries
\* than are allocated, and each allocated list ends in the NULL terminator.
C12_ListsHoldRegistrations ==
    /\ [](\A tag \in DOMAIN TagLists : Terminated(TagLists[tag]))
    /\ [][RegistrationAppends]_vars

\* C12: a list holds two different criteria, the second stored after the
\* list had to grow.
C12_Witness ==
    \E tag \in DOMAIN TagLists :
        /\ TagLists[tag].num_used_elements = 2
        /\ TagLists[tag].num_allocated_elements = INIT_LIST_SPACE + MORE_LIST_SPACE
        /\ TagLists[tag].tag_strings[1] # TagLists[tag].tag_strings[2]
        /\ call.fn = "add_tag_to_list"
        /\ TagLists[tag].tag_strings[2] = StoredCriterion(call.args)

-----------------------------------------------------------------------------
(* Date criteria are registered, then records are evaluated one after the  *)
(* other, the diagnostics accumulating in the log file.                    *)

\* How many diagnostics a run writes before it stops evaluating.
MaxLogged == 2

LoggedDateCriteria ==
    {[tag_string |-> S_x, operator |-> "LESS_THAN"],
     [tag_string |-> S_1990, operator |-> "GREATER_THAN"],
     [tag_string |-> S_1995, operator |-> "NONE"]}

LoggedDates == {NULL, S_x, S_1995_06_01, S_2000_01_01}

RegisterDate ==
    \E c \in LoggedDateCriteria : add_tag_to_list(DATE_TAG, c.tag_string, c.operator)

\* check_tag_details_not_ECO(Details, num_details) ends with r, what it
\* wrote to the log file coming after what the file held.
EvaluatedLogging(Details, num_details, r) ==
    /\ exited' = r.exit
    /\ logfile' = logfile \o r.log
    /\ sbuf' = r.sbuf
    /\ call' = [fn |-> "check_tag_details_not_ECO",
                args |-> [Details |-> Details, num_details |-> num_details],
                ret |-> [wanted |-> r.wanted], done |-> ~r.exit]
    /\ UNCHANGED <<TagLists, tag_list_length, check_tags, use_soundex,
                   tag_match_anywhere, fen_patterns, nregs, threads>>

\* The Details of a record with the Date value date and no other tag.
DatedDetails(date) ==
    [tag \in 0..(tag_list_length - 1) |-> IF tag = DATE_TAG THEN date ELSE NULL]

EvaluateDated ==
    /\ ~exited
    /\ Len(logfile) < MaxLogged
    /\ \E date \in LoggedDates :
           EvaluatedLogging(DatedDetails(date), tag_list_length,
               check_tag_details_not_ECO(DatedDetails(date), tag_list_length))

NextDateLog == RegisterDate \/ EvaluateDated

SpecDateLog == Init /\ [][NextDateLog]_vars

\* The registered date criteria with an effective relational operator and
\* no leading year: their positions in the list.
Malformed ==
    {i \in 1..Len(Entries(TagLists[DATE_TAG])) :
        /\ EffectiveOperator(Entries(TagLists[DATE_TAG])[i]) # "NONE"
        /\ ~ScanU(PatternDate(Entries(TagLists[DATE_TAG])[i])).ok}

\* How often the diagnostic stands in the log file.
FailedToExtract(log) ==
    Cardinality({i \in 1..Len(log) : log[i] = "Failed to extract year"})

\* The step is an evaluation of a record.
EvaluatedRecord == nregs' = nregs /\ call'.fn = "check_tag_details_not_ECO"

-----------------------------------------------------------------------------
(* check_date on lists that mix relational and plain criteria.             *)

\* C14: check_date returns TRUE only if every criterion of the list with
\* an effective relational operator has a pattern date that compares true
\* against the candidate date, whatever plain criteria the list holds
\* besides.
C14_DateOperatorsAnded ==
    (DateReturned /\ call.ret.wanted)
    => \A i \in 1..Len(CallEntries) :
           EffectiveOperator(CallEntries[i]) # "NONE"
           => /\ ScanU(PatternDate(CallEntries[i])).ok
              /\ DateComparison(CallEntries[i])

-----------------------------------------------------------------------------
(* The relational pass of check_list.                                      *)

\* C15: when check_list has entered its relational pass, it has carried
\* out at least one numeric comparison there.
C15_RangePassCompares ==
    (ListReturned /\ call.ret.range_pass) => call.ret.comparisons >= 1

-----------------------------------------------------------------------------
(* soundex.                                                                *)

\* The longest name drawn, but for the one long name.
MaxNameLen == 3

NameChars == {"B", "b", "P", "a", "L", "J", "y", "-"}

\* A name of more letters than soundex has room for, each with another
\* digit than the one before.
LongName == [i \in 1..(MAXSOUNDEX + 10) |-> IF i % 2 = 1 THEN "B" ELSE "L"]

Names == UNION {[1..k -> NameChars] : k \in 0..MaxNameLen} \cup {LongName}

InitSoundex ==
    /\ Configured({TRUE}, {FALSE})
    /\ call \in {[fn |-> "soundex", args |-> [str |-> n], ret |-> <<>>,
                  done |-> FALSE] : n \in Names}

\* The call of soundex.
Soundex ==
    /\ call.fn = "soundex"
    /\ ~call.done
    /\ sbuf' = SoundexBuf(call.args.str, sbuf)
    /\ call' = [call EXCEPT !.ret = CStr(sbuf'), !.done = TRUE]
    /\ UNCHANGED <<TagLists, tag_list_length, check_tags, use_soundex,
                   tag_match_anywhere, fen_patterns, logfile, exited, nregs,
                   threads>>

SpecSoundex == InitSoundex /\ [][Soundex]_vars

SoundexReturned == call.fn = "soundex" /\ call.done

\* The letter c in the other case, any other character as it is.
OtherCase(c) ==
    IF islower(c) THEN UpperOf[c]
    ELSE IF isupper(c) THEN CHOOSE l \in DOMAIN UpperOf : UpperOf[l] = c
    ELSE c

\* C16: the code soundex returns has at most 50 symbols, none of them '0'
\* and no two adjacent ones equal, and is the code of the same name with
\* its letters in the other case or all in upper case.
C16_SoundexCode ==
    SoundexReturned
    => /\ Len(call.ret) <= 50
       /\ \A i \in 1..Len(call.ret) : call.ret[i] \in {"1", "2", "3", "4", "5", "6", "7"}
       /\ \A i \in 1..(Len(call.ret) - 1) : call.ret[i] # call.ret[i + 1]
       /\ call.ret = soundex([i \in 1..Len(call.args.str) |->
                                 OtherCase(call.args.str[i])])
       /\ call.ret = soundex([i \in 1..Len(call.args.str) |->
                                 toupper(call.args.str[i])])

\* C16: two letters of the same digit, with a silent letter or a character
\* that is no letter between them, have been encoded as one symbol.
C16_Witness ==
    /\ SoundexReturned
    /\ Len(call.args.str) = 3
    /\ call.args.str[1] \in {"B", "b", "P"}
    /\ call.args.str[2] \in {"a", "-"}
    /\ call.args.str[3] \in {"B", "b", "P"}
    /\ call.args.str[3] # call.args.str[1]
    /\ call.ret = <<"1">>

====
